---- MODULE Spec2Model ----
(***************************************************************************)
(* Model of the batch collation and entity reconstruction pipeline of      *)
(* GLiNER: gliner/data_processing/collator.py and gliner/model.py.         *)
(*                                                                         *)
(* Three specifications share the variables:                               *)
(*   SpecPad      DataCollatorWithPadding.__call__ on a drawn batch        *)
(*   SpecPredict  GLiNER.batch_predict_entities: offset maps, decoding,    *)
(*                entity reconstruction                                    *)
(*   SpecMerge    GLiNER.__init__, the merge and device steps of           *)
(*                GLiNER.prepare_model_inputs, and DataCollator.__call__   *)
(***************************************************************************)
EXTENDS Integers, Sequences, FiniteSets, TLC

\* pc:     where the call stands ("start", ..., "done")
\* args:   the arguments of the call
\* locals: the local variables of the call that outlive a step
\* ret:    what the call returned or raised, once pc = "done"
VARIABLES pc, args, locals, ret

vars == <<pc, args, locals, ret>>

\* ---------------------------------------------------------------- bounds

\* Largest number of examples in a batch handed to the padding engine.
MaxBatch == 2
\* Largest size of any tensor axis (and of a list-valued feature).
MaxDim == 2
\* Largest number of texts in one batch_predict_entities call.
MaxTexts == 2
\* Largest number of span hypotheses the decoder returns in one call.
MaxHyps == 2

\* ------------------------------------------------------- python outcomes

\* A call either returns a value or raises; `error` is the exception class.
Ok(v) == [status |-> "ok", error |-> "", value |-> v]

Err(e) == [status |-> "error", error |-> e, value |-> <<>>]

\* The call has not ended yet.
Pending == [status |-> "pending", error |-> "", value |-> <<>>]

IsOk(r) == r.status = "ok"

Max(S) == CHOOSE m \in S : \A x \in S : x <= m

Range(f) == {f[x] : x \in DOMAIN f}

\* --------------------------------------------------------------- tensors

\* A tensor is its shape and a value for every index tuple (0-based, as in
\* torch).  A rank-0 tensor has shape <<>> and the single index <<>>.
RECURSIVE Indices(_)
Indices(shape) ==
    IF shape = <<>> THEN {<<>>}
    ELSE {<<i>> \o r : i \in 0..(shape[1] - 1), r \in Indices(Tail(shape))}

Tensor(shape, f) == [kind |-> "tensor", shape |-> shape, data |-> f]

IsTensor(v) == v.kind = "tensor"

Dim(t) == Len(t.shape)

\* torch.Tensor.squeeze(0): drops axis 0 when its size is 1, else no change.
squeeze0(t) ==
    IF Dim(t) >= 1 /\ t.shape[1] = 1
    THEN Tensor(Tail(t.shape),
                [idx \in Indices(Tail(t.shape)) |-> t.data[<<0>> \o idx]])
    ELSE t

\* Whether idx is an index of a tensor of this shape.
InShape(idx, shape) ==
    /\ Len(idx) = Len(shape)
    /\ \A a \in 1..Len(shape) : idx[a] >= 0 /\ idx[a] < shape[a]

\* F.pad(t, (0, last, 0, prev), mode='constant', value=0): zero padding on the
\* right of the last axis and of the axis before it.
F_pad(t, last, prev) ==
    LET n == Dim(t)
        shape == [a \in 1..n |->
                    IF a = n THEN t.shape[a] + last
                    ELSE IF a = n - 1 THEN t.shape[a] + prev
                    ELSE t.shape[a]]
    IN Tensor(shape,
              [idx \in Indices(shape) |->
                 IF InShape(idx, t.shape) THEN t.data[idx] ELSE 0])

\* torch.stack(tensors): a new leading axis; all shapes must agree.
torch_stack(ts) ==
    IF \E i \in 1..Len(ts) : ts[i].shape # ts[1].shape
    THEN Err("RuntimeError")
    ELSE LET shape == <<Len(ts)>> \o ts[1].shape
         IN Ok(Tensor(shape,
                      [idx \in Indices(shape) |-> ts[idx[1] + 1].data[Tail(idx)]]))

RECURSIVE SumUpTo(_, _)
\* Sum of the sizes of axis 1 (0-based) of the first k tensors.
SumUpTo(ts, k) == IF k = 0 THEN 0 ELSE SumUpTo(ts, k - 1) + ts[k].shape[2]

\* torch.cat(tensors, dim=1): sizes must agree on every axis but axis 1.
torch_cat1(ts) ==
    IF \E i \in 1..Len(ts) :
         \/ Dim(ts[i]) # Dim(ts[1])
         \/ \E a \in 1..Dim(ts[1]) : a # 2 /\ ts[i].shape[a] # ts[1].shape[a]
    THEN Err("RuntimeError")
    ELSE LET n == Dim(ts[1])
             shape == [a \in 1..n |->
                         IF a = 2 THEN SumUpTo(ts, Len(ts)) ELSE ts[1].shape[a]]
             \* the tensor holding position j of axis 1
             Owner(j) == CHOOSE k \in 1..Len(ts) :
                            SumUpTo(ts, k - 1) <= j /\ j < SumUpTo(ts, k)
         IN Ok(Tensor(shape,
                      [idx \in Indices(shape) |->
                         LET k == Owner(idx[2])
                         IN ts[k].data[[idx EXCEPT ![2] = @ - SumUpTo(ts, k - 1)]]]))

\* torch.nn.utils.rnn.pad_sequence(sequences, batch_first=True), reached only
\* when sequences[0] is rank 1.  A rank-0 element has no size(0); a rank-2
\* element cannot be copied into a row of the rank-2 output.
pad_sequence(key_data) ==
    IF \E i \in 1..Len(key_data) : Dim(key_data[i]) = 0
    THEN Err("IndexError")
    ELSE IF \E i \in 1..Len(key_data) : Dim(key_data[i]) # Dim(key_data[1])
    THEN Err("RuntimeError")
    ELSE LET max_len == Max({key_data[i].shape[1] : i \in 1..Len(key_data)})
             shape == <<Len(key_data), max_len>>
         IN Ok(Tensor(shape,
                      [idx \in Indices(shape) |->
                         IF idx[2] < key_data[idx[1] + 1].shape[1]
                         THEN key_data[idx[1] + 1].data[<<idx[2]>>]
                         ELSE 0]))

\* ------------------------------------------------ DataCollatorWithPadding

\* self.config: None, or a configuration with the given span_mode.
Configs == {"None", "token_level", "markerV0"}

\* DataCollatorWithPadding.pad_2d_tensor
pad_2d_tensor(key_data) ==
    IF Len(key_data) = 0 THEN Err("ValueError")
    ELSE IF \E i \in 1..Len(key_data) : Dim(key_data[i]) < 2
    THEN Err("IndexError")        \* tensor.shape[1] of a rank-0/1 tensor
    ELSE IF \E i \in 1..Len(key_data) : Dim(key_data[i]) > 2
    THEN Err("ValueError")        \* rows, cols = tensor.shape
    ELSE LET max_rows == Max({key_data[i].shape[1] : i \in 1..Len(key_data)})
             max_cols == Max({key_data[i].shape[2] : i \in 1..Len(key_data)})
             tensors == [i \in 1..Len(key_data) |->
                           F_pad(key_data[i],
                                 max_cols - key_data[i].shape[2],
                                 max_rows - key_data[i].shape[1])]
         IN torch_stack(tensors)

\* DataCollatorWithPadding.pad_token_labels
pad_token_labels(key_data) ==
    IF Len(key_data) = 0 THEN Err("ValueError")
    ELSE IF \E i \in 1..Len(key_data) : Dim(key_data[i]) < 4
    THEN Err("IndexError")        \* tensor.shape[2] / tensor.shape[3]
    ELSE LET max_seq_len == Max({key_data[i].shape[3] : i \in 1..Len(key_data)})
             max_num_classes == Max({key_data[i].shape[4] : i \in 1..Len(key_data)})
             padded_tensors == [i \in 1..Len(key_data) |->
                                  F_pad(key_data[i],
                                        max_num_classes - key_data[i].shape[4],
                                        max_seq_len - key_data[i].shape[3])]
         IN torch_cat1(padded_tensors)

\* The list branch: right-pad with 0 to the longest list, then
\* torch.tensor(...).to(self.device).  DataCollatorWithPadding never sets
\* self.device, so reading it raises.
pad_lists(key_data) == Err("AttributeError")

\* The int/float branch: torch.tensor(key_data).to(self.device), as above.
pad_numbers(key_data) == Err("AttributeError")

\* The body of `for key in keys` for one key: lines 42-65.
PadKey(config, key, batch) ==
    IF \E i \in 1..Len(batch) : ~IsTensor(batch[i][key])
    THEN Err("AttributeError")    \* list / int / float has no .squeeze
    ELSE LET key_data == [i \in 1..Len(batch) |-> squeeze0(batch[i][key])]
         IN IF IsTensor(key_data[1])
            THEN IF Dim(key_data[1]) = 1 THEN pad_sequence(key_data)
                 ELSE IF Dim(key_data[1]) = 2 THEN pad_2d_tensor(key_data)
                 ELSE IF key = "labels"
                 THEN IF config = "None" THEN Err("AttributeError")
                      ELSE IF config = "token_level"
                      THEN pad_token_labels(key_data)
                      ELSE Err("TypeError")
                 ELSE Err("TypeError")
            ELSE IF key_data[1].kind = "list" THEN pad_lists(key_data)
            ELSE IF key_data[1].kind = "num" THEN pad_numbers(key_data)
            ELSE Err("TypeError")

RECURSIVE PadKeys(_, _, _, _)
\* The loop over the keys, in dictionary order; the first exception ends it.
PadKeys(config, keys, batch, padded_batch) ==
    IF keys = <<>> THEN Ok(padded_batch)
    ELSE LET r == PadKey(config, Head(keys), batch)
         IN IF IsOk(r)
            THEN PadKeys(config, Tail(keys), batch,
                         [padded_batch EXCEPT ![Head(keys)] = r.value])
            ELSE r

\* The emptiness test written as `if batch is None`: a list never passes it.
BatchIsEmpty_NoneOnly(batch) == FALSE

\* `if not batch: raise ValueError("Batch cannot be empty")`
BatchIsEmpty(batch) == Len(batch) = 0

\* DataCollatorWithPadding.__call__; keys is the key order of the feature
\* dictionaries, read from batch[0], which an empty list does not have.
DataCollatorWithPadding_call(config, keys, batch) ==
    IF BatchIsEmpty(batch) THEN Err("ValueError")
    ELSE IF Len(batch) = 0 THEN Err("IndexError")
    ELSE PadKeys(config, keys, batch, [k \in Range(keys) |-> <<>>])

\* ------------------------------------------------- inputs of the engine

RECURSIVE Code(_)
\* A distinct positive number for every index tuple.
Code(idx) == IF idx = <<>> THEN 0 ELSE 10 * Code(SubSeq(idx, 1, Len(idx) - 1)) + idx[Len(idx)] + 1

\* The tensor of example i with the given shape: every entry is non-zero and
\* differs from every other entry of the batch.
ExampleTensor(i, shape) ==
    Tensor(shape, [idx \in Indices(shape) |-> 10000 * i + Code(idx) + 1])

Dims == 1..MaxDim

\* The sizes of the sub-batch axis of a rank-4 label tensor.
SubSizes == {1, 2}

\* Shapes of the per-example values, by feature kind.
Shapes(kind) ==
    CASE kind = "rank1" -> {<<n>> : n \in Dims}
      [] kind = "rank2" -> {<<r, c>> : r \in Dims, c \in Dims}
      [] kind = "rank4" -> {<<1, b, s, c>> : b \in SubSizes, s \in Dims, c \in Dims}
      [] kind = "list" -> {<<n>> : n \in 0..MaxDim}
      [] kind = "num" -> {<<n>> : n \in Dims}

Kinds == {"rank1", "rank2", "rank4", "list", "num"}

ExampleValue(kind, i, shape) ==
    CASE kind \in {"rank1", "rank2", "rank4"} -> ExampleTensor(i, shape)
      [] kind = "list" -> [kind |-> "list", items |-> [j \in 1..shape[1] |-> 10 * i + j]]
      [] kind = "num" -> [kind |-> "num", val |-> shape[1]]

\* Key orders of a feature dictionary.
KeySeqs == {<<"labels">>, <<"input_ids", "labels">>}

\* The batches of one kind: at most MaxBatch examples, each of its own shape.
Batches(kind, keys) ==
    {[i \in DOMAIN sh |-> [k \in Range(keys) |-> ExampleValue(kind, i, sh[i])]] :
        sh \in UNION {[1..n -> Shapes(kind)] : n \in 0..MaxBatch}}

\* Every call of the engine: a configuration, a key order and a batch that is
\* homogeneous in kind; each example carries its value under every key.
InitPad ==
    /\ pc = "start"
    /\ args \in UNION {{[op |-> "pad", config |-> c, keys |-> ks, kind |-> kd, batch |-> b] :
                          c \in Configs, b \in Batches(kd, ks)} :
                       kd \in Kinds, ks \in KeySeqs}
    /\ locals = <<>>
    /\ ret = Pending

\* One call of the padding engine.
CallPad ==
    /\ pc = "start"
    /\ args.op = "pad"
    /\ ret' = DataCollatorWithPadding_call(args.config, args.keys, args.batch)
    /\ pc' = "done"
    /\ UNCHANGED <<args, locals>>

NextPad == CallPad

SpecPad == InitPad /\ [][NextPad]_vars

\* ------------------------------------------------------ python sequences

\* seq[i] of a Python list: a negative index counts from the end; an index
\* outside -len..len-1 raises IndexError.
PyIndex(seq, i) ==
    IF 0 <= i /\ i < Len(seq) THEN Ok(seq[i + 1])
    ELSE IF -Len(seq) <= i /\ i < 0 THEN Ok(seq[Len(seq) + i + 1])
    ELSE Err("IndexError")

\* A slice bound of a Python sequence of length n, clamped as Python does.
PyBound(b, n) ==
    IF b < 0 THEN (IF b + n < 0 THEN 0 ELSE b + n)
    ELSE IF b > n THEN n ELSE b

\* s[a:b] of a Python string; never raises.
PySlice(s, a, b) == SubSeq(s, PyBound(a, Len(s)) + 1, PyBound(b, Len(s)))

\* ------------------------------------------------------------ collaborators

\* A text is its sequence of characters.
IsSpace(c) == c = " "

\* The character positions (0-based) at which a word of the text starts.
WordStarts(text) ==
    {p \in 0..(Len(text) - 1) :
        ~IsSpace(text[p + 1]) /\ (p = 0 \/ IsSpace(text[p]))}

\* The end (exclusive) of the word starting at p.
WordEnd(text, p) ==
    CHOOSE q \in (p + 1)..Len(text) :
        /\ \A r \in (p + 1)..q : ~IsSpace(text[r])
        /\ (q = Len(text) \/ IsSpace(text[q + 1]))

RECURSIVE SortedSeq(_)
\* The elements of a finite set of integers in increasing order.
SortedSeq(S) ==
    IF S = {} THEN <<>>
    ELSE LET m == CHOOSE x \in S : \A y \in S : x <= y
         IN <<m>> \o SortedSeq(S \ {m})

\* The word splitter: the (token, start, end) triples of a text, in order.
words_splitter(text) ==
    LET starts == SortedSeq(WordStarts(text))
    IN [k \in 1..Len(starts) |->
          <<SubSeq(text, starts[k] + 1, WordEnd(text, starts[k])),
            starts[k], WordEnd(text, starts[k])>>]

\* ------------------------------------------------------------------ GLiNER

\* prepare_model_inputs, lines 81-100: the token sequences and the two offset
\* maps of every text, kept in raw_batch.
OffsetMaps(texts) ==
    [tokens |-> [i \in 1..Len(texts) |->
                   [k \in 1..Len(words_splitter(texts[i])) |-> words_splitter(texts[i])[k][1]]],
     all_start_token_idx_to_text_idx |->
        [i \in 1..Len(texts) |->
           [k \in 1..Len(words_splitter(texts[i])) |-> words_splitter(texts[i])[k][2]]],
     all_end_token_idx_to_text_idx |->
        [i \in 1..Len(texts) |->
           [k \in 1..Len(words_splitter(texts[i])) |-> words_splitter(texts[i])[k][3]]]]

\* An entity whose end is read from the start map.
Entity_EndFromStartMap(text, start_token_idx_to_text_idx, end_token_idx_to_text_idx, hyp) ==
    LET start_text_idx == PyIndex(start_token_idx_to_text_idx, hyp[1])
        end_text_idx == PyIndex(start_token_idx_to_text_idx, hyp[2])
    IN IF ~IsOk(start_text_idx) THEN start_text_idx
       ELSE IF ~IsOk(end_text_idx) THEN end_text_idx
       ELSE Ok([start |-> start_text_idx.value,
                end |-> end_text_idx.value,
                text |-> PySlice(text, start_text_idx.value, end_text_idx.value),
                label |-> hyp[3],
                score |-> hyp[4]])

\* The dictionary appended for one hypothesis, lines 145-153.
Entity(text, start_token_idx_to_text_idx, end_token_idx_to_text_idx, hyp) ==
    LET start_text_idx == PyIndex(start_token_idx_to_text_idx, hyp[1])
        end_text_idx == PyIndex(end_token_idx_to_text_idx, hyp[2])
    IN IF ~IsOk(start_text_idx) THEN start_text_idx
       ELSE IF ~IsOk(end_text_idx) THEN end_text_idx
       ELSE Ok([start |-> start_text_idx.value,
                end |-> end_text_idx.value,
                text |-> PySlice(text, start_text_idx.value, end_text_idx.value),
                label |-> hyp[3],
                score |-> hyp[4]])

RECURSIVE Entities(_, _, _, _, _)
RECURSIVE Entities_Dedup(_, _, _, _, _)
\* An inner loop that drops an entity it has already appended.
Entities_Dedup(text, starts, ends, output, entities) ==
    IF output = <<>> THEN Ok(entities)
    ELSE LET e == Entity(text, starts, ends, Head(output))
         IN IF IsOk(e)
            THEN Entities_Dedup(text, starts, ends, Tail(output),
                                IF e.value \in Range(entities) THEN entities
                                ELSE Append(entities, e.value))
            ELSE e

\* The inner loop, lines 143-153: entities appended in hypothesis order.
Entities(text, starts, ends, output, entities) ==
    IF output = <<>> THEN Ok(entities)
    ELSE LET e == Entity(text, starts, ends, Head(output))
         IN IF IsOk(e)
            THEN Entities(text, starts, ends, Tail(output), Append(entities, e.value))
            ELSE e

RECURSIVE AllEntities(_, _, _, _, _)
\* The outer loop, lines 139-156, from text i on.
AllEntities(texts, raw_batch, outputs, i, all_entities) ==
    IF i > Len(outputs) THEN Ok(all_entities)
    ELSE LET entities == Entities(texts[i],
                                  raw_batch.all_start_token_idx_to_text_idx[i],
                                  raw_batch.all_end_token_idx_to_text_idx[i],
                                  outputs[i], <<>>)
         IN IF IsOk(entities)
            THEN AllEntities(texts, raw_batch, outputs, i + 1,
                             Append(all_entities, entities.value))
            ELSE entities

\* ------------------------------------------------- inputs of the pipeline

\* The texts a caller may pass.
TextSet == {<<"a", "b", " ", "c">>, <<" ", "d", "e">>}

\* The label vocabulary with the score the decoder gives each label (percent).
LabelScores == {<<"PERSON", 95>>, <<"ORG", 88>>}

\* Token indices a decoder may return for a text of n tokens: the valid ones,
\* one below and one above.
TokenIdx(n) == (-1)..n

\* The hypotheses (start_token_idx, end_token_idx, label, score) for a text of
\* n tokens.
Hyps(n) ==
    {<<s, e, ls[1], ls[2]>> : s \in TokenIdx(n), e \in TokenIdx(n), ls \in LabelScores}

RECURSIVE Total(_)
\* The number of hypotheses in all the lists of outputs.
Total(outputs) == IF outputs = <<>> THEN 0 ELSE Len(Head(outputs)) + Total(Tail(outputs))

InitPredict ==
    /\ pc = "start"
    /\ args \in {[op |-> "predict", texts |-> t] :
                   t \in UNION {[1..n -> TextSet] : n \in 1..MaxTexts}}
    /\ locals = <<>>
    /\ ret = Pending

\* batch_predict_entities, line 129: prepare_model_inputs builds raw_batch;
\* the decoder's result starts as one empty hypothesis list per text.
Prepare ==
    /\ pc = "start"
    /\ args.op = "predict"
    /\ locals' = [raw_batch |-> OffsetMaps(args.texts),
                  outputs |-> [i \in 1..Len(args.texts) |-> <<>>]]
    /\ pc' = "decoding"
    /\ UNCHANGED <<args, ret>>

\* Lines 131-137: the encoder and the decoder.  The decoder adds one more
\* hypothesis to the list of some text; which one is the decoder's choice.
DecodeHyp ==
    /\ pc = "decoding"
    /\ Total(locals.outputs) < MaxHyps
    /\ \E i \in 1..Len(args.texts) :
         \E h \in Hyps(Len(locals.raw_batch.tokens[i])) :
            locals' = [locals EXCEPT !.outputs[i] = Append(@, h)]
    /\ UNCHANGED <<pc, args, ret>>

\* Lines 139-156: entity reconstruction from what the decoder returned.
Reconstruct ==
    /\ pc = "decoding"
    /\ ret' = AllEntities(args.texts, locals.raw_batch, locals.outputs, 1, <<>>)
    /\ pc' = "done"
    /\ UNCHANGED <<args, locals>>

NextPredict == Prepare \/ DecodeHyp \/ Reconstruct

SpecPredict == InitPredict /\ [][NextPredict]_vars

\* ------------------------------------------- model inputs and their merge

\* A value of a Python dictionary of the pipeline: None, a tensor on a device,
\* or another object (a list, a map).  `name` tells the values apart.
None == [kind |-> "none", name |-> "None", device |-> "-"]

DevTensor(name, device) == [kind |-> "tensor", name |-> name, device |-> device]

Object(name) == [kind |-> "obj", name |-> name, device |-> "-"]

\* A merge that keeps a key the dictionary already has (setdefault).
DictUpdate_KeepExisting(d, u) ==
    [k \in DOMAIN d \cup DOMAIN u |-> IF k \in DOMAIN d THEN d[k] ELSE u[k]]

\* dict.update: the keys of u are set, the others are kept.
DictUpdate(d, u) ==
    [k \in DOMAIN d \cup DOMAIN u |-> IF k \in DOMAIN u THEN u[k] ELSE d[k]]

\* The dictionary both merge steps pass to update(): collator.py lines 18-20
\* and model.py lines 103-105.
MergedKeys(raw_batch) ==
    [k \in {"span_idx", "span_mask", "text_lengths"} |->
        CASE k = "span_idx" ->
                IF "span_idx" \in DOMAIN raw_batch THEN raw_batch["span_idx"] ELSE None
          [] k = "span_mask" ->
                IF "span_mask" \in DOMAIN raw_batch THEN raw_batch["span_mask"] ELSE None
          [] k = "text_lengths" -> raw_batch["seq_length"]]

\* DataCollator.__call__, lines 14-21; collated is what collate_fn returned.
DataCollator_call(raw_batch, collated) == DictUpdate(collated, MergedKeys(raw_batch))

\* The model classes a GLiNER instance may wrap.
ModelKinds == {"SpanModel", "TokenModel", "SpanORTModel", "TokenORTModel"}

\* isinstance(model, BaseORTModel)
IsORT(model_kind) == model_kind \in {"SpanORTModel", "TokenORTModel"}

\* GLiNER.__init__, lines 55-58: both branches assign True.
onnx_model(model_kind) == IF IsORT(model_kind) THEN TRUE ELSE TRUE

\* tensor.to(device)
To(v, device) == [v EXCEPT !.device = device]

\* prepare_model_inputs, lines 107-111: the move to the model's device.
MoveToDevice(is_onnx, model_input, device) ==
    IF ~is_onnx
    THEN [k \in DOMAIN model_input |->
            IF model_input[k].kind # "none" /\ model_input[k].kind = "tensor"
            THEN To(model_input[k], device)
            ELSE model_input[k]]
    ELSE model_input

\* prepare_model_inputs, lines 102-113.
prepare_model_inputs(is_onnx, device, raw_batch, collated) ==
    MoveToDevice(is_onnx, DictUpdate(collated, MergedKeys(raw_batch)), device)

Devices == {"cpu", "cuda"}

\* The raw batches of a strategy: seq_length always, the span keys at will.
RawBatches ==
    {[key \in ks \cup {"seq_length"} |->
        CASE key = "seq_length" -> sl
          [] key = "span_idx" -> DevTensor("raw_span_idx", "cpu")
          [] key = "span_mask" -> DevTensor("raw_span_mask", "cpu")] :
     ks \in SUBSET {"span_idx", "span_mask"},
     sl \in {DevTensor("seq_length", "cpu"), Object("seq_length_list")}}

\* The dictionaries collate_fn may return: the tokenizer's tensors (on the
\* cpu), a words_mask object, and possibly span keys of its own.
Collated ==
    {[key \in ks \cup {"input_ids", "words_mask"} |->
        CASE key = "input_ids" -> DevTensor("input_ids", "cpu")
          [] key = "words_mask" -> Object("words_mask")
          [] key = "span_idx" -> DevTensor("collated_span_idx", "cpu")
          [] key = "span_mask" -> DevTensor("collated_span_mask", "cpu")] :
     ks \in SUBSET {"span_idx", "span_mask"}}

InitMerge ==
    /\ pc = "start"
    /\ args \in {[op |-> o, model_kind |-> m, device |-> d, raw_batch |-> r, collated |-> c] :
                   o \in {"prepare", "collate"}, m \in ModelKinds, d \in Devices,
                   r \in RawBatches, c \in Collated}
    /\ locals = <<>>
    /\ ret = Pending

\* GLiNER.__init__: the instance remembers whether its model is an ONNX one.
Construct ==
    /\ pc = "start"
    /\ args.op = "prepare"
    /\ locals' = [onnx_model |-> onnx_model(args.model_kind)]
    /\ pc' = "constructed"
    /\ UNCHANGED <<args, ret>>

\* GLiNER.prepare_model_inputs from the collated dictionary on.
PrepareModelInputs ==
    /\ pc = "constructed"
    /\ ret' = Ok(prepare_model_inputs(locals.onnx_model, args.device,
                                      args.raw_batch, args.collated))
    /\ pc' = "done"
    /\ UNCHANGED <<args, locals>>

\* DataCollator.__call__ from the collated dictionary on.
CollatorCall ==
    /\ pc = "start"
    /\ args.op = "collate"
    /\ ret' = Ok(DataCollator_call(args.raw_batch, args.collated))
    /\ pc' = "done"
    /\ UNCHANGED <<args, locals>>

NextMerge == Construct \/ PrepareModelInputs \/ CollatorCall

SpecMerge == InitMerge /\ [][NextMerge]_vars

\* ================================================================ claims

\* ---- padding engine (SpecPad)

PadDone(kind) ==
    pc = "done" /\ args.op = "pad" /\ args.kind = kind /\ Len(args.batch) >= 1

\* The input tensor of example i (1-based) under key.
In(i, key) == args.batch[i][key]

\* C1: a non-empty batch of rank-1 tensors (lengths >= 1, length 1 included)
\* comes back, for every key, as a tensor of shape [batch_size, max_len] whose
\* row i starts with example i's entries and is 0 after them.
C1_Rank1Padded ==
    PadDone("rank1") =>
        /\ IsOk(ret)
        /\ \A key \in Range(args.keys) :
             LET n == Len(args.batch)
                 max_len == Max({In(i, key).shape[1] : i \in 1..n})
                 out == ret.value[key]
             IN /\ out.shape = <<n, max_len>>
                /\ \A i \in 1..n : \A j \in 0..(max_len - 1) :
                      out.data[<<i - 1, j>>] =
                         IF j < In(i, key).shape[1] THEN In(i, key).data[<<j>>] ELSE 0

\* C2: a non-empty batch of rank-2 tensors [rows_i, cols_i] (one-row examples
\* included) comes back as a tensor of shape [batch_size, max_rows, max_cols]
\* whose slice i holds example i in its [:rows_i, :cols_i] prefix and 0
\* elsewhere.
C2_Rank2Padded ==
    PadDone("rank2") =>
        /\ IsOk(ret)
        /\ \A key \in Range(args.keys) :
             LET n == Len(args.batch)
                 max_rows == Max({In(i, key).shape[1] : i \in 1..n})
                 max_cols == Max({In(i, key).shape[2] : i \in 1..n})
                 out == ret.value[key]
             IN /\ out.shape = <<n, max_rows, max_cols>>
                /\ \A i \in 1..n : \A r \in 0..(max_rows - 1) : \A c \in 0..(max_cols - 1) :
                      out.data[<<i - 1, r, c>>] =
                         IF r < In(i, key).shape[1] /\ c < In(i, key).shape[2]
                         THEN In(i, key).data[<<r, c>>] ELSE 0

\* C6: a call with an empty batch always raises ValueError; it returns
\* nothing, neither an empty dictionary nor an empty tensor.
C6_EmptyBatchRejected ==
    (pc = "done" /\ args.op = "pad" /\ Len(args.batch) = 0) =>
        (ret.status = "error" /\ ret.error = "ValueError")

\* C6 witness: a call with an empty batch has ended with ValueError.
C6_Witness ==
    /\ pc = "done" /\ args.op = "pad" /\ Len(args.batch) = 0
    /\ args.keys = <<"input_ids", "labels">>
    /\ ret.error = "ValueError"

\* C9: a non-empty batch of plain lists of numbers comes back as a
\* [batch_size, max_len] tensor, each list right-padded with 0; a batch of
\* plain int/float scalars comes back as a 1-D tensor, one entry per example
\* in batch order.
C9_NonTensorFeatures ==
    /\ PadDone("list") =>
          /\ IsOk(ret)
          /\ \A key \in Range(args.keys) :
               LET n == Len(args.batch)
                   max_len == Max({Len(In(i, key).items) : i \in 1..n})
                   out == ret.value[key]
               IN /\ out.shape = <<n, max_len>>
                  /\ \A i \in 1..n : \A j \in 0..(max_len - 1) :
                        out.data[<<i - 1, j>>] =
                           IF j < Len(In(i, key).items) THEN In(i, key).items[j + 1] ELSE 0
    /\ PadDone("num") =>
          /\ IsOk(ret)
          /\ \A key \in Range(args.keys) :
               /\ ret.value[key].shape = <<Len(args.batch)>>
               /\ \A i \in 1..Len(args.batch) :
                     ret.value[key].data[<<i - 1>>] = In(i, key).val

RECURSIVE SubBefore(_)
\* The number of sub-batch rows of the label tensors before example i.
SubBefore(i) == IF i = 1 THEN 0 ELSE SubBefore(i - 1) + In(i - 1, "labels").shape[2]

\* C10: in token-level mode, rank-4 'labels' tensors [1, sub_i, seq_i, cls_i]
\* come back as one tensor, concatenated along the sub-batch axis (size: the
\* sum of the sub_i), with the sequence and class axes zero-padded to the
\* batch maxima; example i's values are the [:seq_i, :cls_i] prefix of its rows.
C10_TokenLabelsConcatenated ==
    (PadDone("rank4") /\ args.config = "token_level" /\ args.keys = <<"labels">>) =>
        /\ IsOk(ret)
        /\ LET n == Len(args.batch)
               max_seq == Max({In(i, "labels").shape[3] : i \in 1..n})
               max_cls == Max({In(i, "labels").shape[4] : i \in 1..n})
               out == ret.value["labels"]
           IN /\ out.shape = <<1, SubBefore(n + 1), max_seq, max_cls>>
              /\ \A i \in 1..n : \A b \in 0..(In(i, "labels").shape[2] - 1) :
                   \A q \in 0..(max_seq - 1) : \A c \in 0..(max_cls - 1) :
                      out.data[<<0, SubBefore(i) + b, q, c>>] =
                         IF q < In(i, "labels").shape[3] /\ c < In(i, "labels").shape[4]
                         THEN In(i, "labels").data[<<0, b, q, c>>] ELSE 0

\* ---- entity reconstruction (SpecPredict)

\* Text i's offset maps and token count.
StartMap(i) == locals.raw_batch.all_start_token_idx_to_text_idx[i]

EndMap(i) == locals.raw_batch.all_end_token_idx_to_text_idx[i]

ValidIdx(i, t) == 0 <= t /\ t < Len(StartMap(i))

\* str is the characters start..end-1 (0-based) of text, nothing if start >= end.
IsSliceOf(str, text, start, end) ==
    /\ Len(str) = (IF end > start THEN end - start ELSE 0)
    /\ \A j \in 1..Len(str) : str[j] = text[start + j]

\* C3: every hypothesis (s, e, label, score) with valid token indices is
\* emitted as an entity with start = start_char_of_token[s], end =
\* end_char_of_token[e], text = texts[i][start:end] of the original string,
\* label and score unchanged, and no token index among its fields.
C3_EntityFromOffsets ==
    (pc = "done" /\ args.op = "predict" /\ IsOk(ret)) =>
        \A i \in 1..Len(locals.outputs) : \A k \in 1..Len(locals.outputs[i]) :
            LET h == locals.outputs[i][k]
                ent == ret.value[i][k]
            IN (ValidIdx(i, h[1]) /\ ValidIdx(i, h[2])) =>
                 /\ DOMAIN ent = {"start", "end", "text", "label", "score"}
                 /\ ent.start = StartMap(i)[h[1] + 1]
                 /\ ent.end = EndMap(i)[h[2] + 1]
                 /\ IsSliceOf(ent.text, args.texts[i], ent.start, ent.end)
                 /\ ent.label = h[3]
                 /\ ent.score = h[4]

\* C3 witness: the second text of a batch has a hypothesis spanning two tokens,
\* emitted with a text of several characters.
C3_Witness ==
    /\ pc = "done" /\ args.op = "predict" /\ IsOk(ret)
    /\ Len(args.texts) = 2 /\ args.texts[1] # args.texts[2]
    /\ \E k \in 1..Len(locals.outputs[2]) :
          /\ locals.outputs[2][k][1] = 0
          /\ locals.outputs[2][k][2] = 1
          /\ Len(ret.value[2][k].text) > 2

\* C4: a hypothesis with a start or end token index outside 0..len-1 (too
\* large or negative) makes batch_predict_entities fail; no entity is
\* returned for it.
C4_OutOfRangeIsFatal ==
    (pc = "done" /\ args.op = "predict"
       /\ \E i \in 1..Len(locals.outputs) : \E k \in 1..Len(locals.outputs[i]) :
             ~ValidIdx(i, locals.outputs[i][k][1]) \/ ~ValidIdx(i, locals.outputs[i][k][2]))
    => ret.status = "error"

\* C5: the result holds one entity list per hypothesis list, in text order;
\* text i's list has as many entities as hypotheses, the k-th built from the
\* k-th hypothesis: nothing is re-sorted, merged, filtered or deduplicated.
C5_OrderAndCountKept ==
    (pc = "done" /\ args.op = "predict" /\ IsOk(ret)) =>
        /\ Len(ret.value) = Len(locals.outputs)
        /\ \A i \in 1..Len(locals.outputs) :
              /\ Len(ret.value[i]) = Len(locals.outputs[i])
              /\ \A k \in 1..Len(locals.outputs[i]) :
                    LET h == locals.outputs[i][k]
                        ent == ret.value[i][k]
                    IN /\ ent.label = h[3] /\ ent.score = h[4]
                       /\ ent.start = PyIndex(StartMap(i), h[1]).value
                       /\ ent.end = PyIndex(EndMap(i), h[2]).value

\* C5 witness: a text with the same hypothesis twice has two equal entities,
\* in a batch of two texts.
C5_Witness ==
    /\ pc = "done" /\ args.op = "predict" /\ IsOk(ret)
    /\ Len(args.texts) = 2
    /\ \E i \in 1..2 :
          /\ Len(locals.outputs[i]) = 2
          /\ locals.outputs[i][1] = locals.outputs[i][2]
          /\ Len(ret.value[i]) = 2
          /\ ret.value[i][1] = ret.value[i][2]

\* ---- merge and device placement (SpecMerge)

SpanKeys == {"span_idx", "span_mask"}

\* Two values are the same object up to the device it lives on.
SameValue(v, w) == v.kind = w.kind /\ v.name = w.name

\* C7: for a model that is not the ONNX variant, every tensor entry of the
\* returned model_input is on the device of the model's parameters and every
\* other entry is unchanged; for the ONNX variant nothing is moved.
C7_TensorsOnModelDevice ==
    (pc = "done" /\ args.op = "prepare") =>
        LET merged == DataCollator_call(args.raw_batch, args.collated)
        IN \A k \in DOMAIN ret.value :
              IF ~IsORT(args.model_kind) /\ ret.value[k].kind = "tensor"
              THEN ret.value[k].device = args.device /\ SameValue(ret.value[k], merged[k])
              ELSE ret.value[k] = merged[k]

\* C8 as stated: the merged model_input has span_idx, span_mask and
\* text_lengths (= seq_length), and a span key is None only when the strategy
\* supplied no value for it, neither in the raw batch nor in the collated
\* dictionary.
C8_StrategyValueWins ==
    pc = "done" =>
        /\ SpanKeys \cup {"text_lengths"} \subseteq DOMAIN ret.value
        /\ SameValue(ret.value["text_lengths"], args.raw_batch["seq_length"])
        /\ \A k \in SpanKeys :
              ret.value[k] = None => (k \notin DOMAIN args.raw_batch /\ k \notin DOMAIN args.collated)

\* C8 amended: the merged model_input has span_idx, span_mask and
\* text_lengths (= seq_length); a span key holds the raw batch's value when the
\* raw batch has the key and None otherwise, whatever the collated dictionary
\* held under that key.
C8_RawBatchValueWins ==
    pc = "done" =>
        /\ SpanKeys \cup {"text_lengths"} \subseteq DOMAIN ret.value
        /\ SameValue(ret.value["text_lengths"], args.raw_batch["seq_length"])
        /\ \A k \in SpanKeys :
              IF k \in DOMAIN args.raw_batch
              THEN SameValue(ret.value[k], args.raw_batch[k])
              ELSE ret.value[k] = None

\* C8 witness: the collated dictionary had a span_idx the raw batch lacked,
\* and the merge returned None for it; span_mask came from the raw batch.
C8_Witness ==
    /\ pc = "done"
    /\ "span_idx" \in DOMAIN args.collated /\ "span_idx" \notin DOMAIN args.raw_batch
    /\ "span_mask" \in DOMAIN args.raw_batch
    /\ ret.value["span_idx"] = None
    /\ ret.value["span_mask"].name = "raw_span_mask"

====
